---- MODULE Spec2Model ----
(***************************************************************************)
(* Badminton tournament scheduler: the schedule generators for 8 and 12    *)
(* players, the score annotation of a schedule, the statistics folded     *)
(* from the recorded scores, the payouts ranked from them and the side     *)
(* bets settled on top (scheduler.ts and its 12-player revision).          *)
(*                                                                         *)
(* An object keyed by player name is the sequence of its entries in the    *)
(* order of creation; Object.entries lists integer-like keys first.        *)
(*                                                                         *)
(* JavaScript arrays are sequences; the code's 0-based index k is the      *)
(* sequence index k + 1 (operator At).  A Game is a record whose optional  *)
(* fields team1Score / team2Score are absent from its DOMAIN while the     *)
(* score is undefined, exactly as in the object literal the code builds.   *)
(***************************************************************************)
EXTENDS Integers, Sequences, FiniteSets, TLC

VARIABLES
    stage,        \* "input" before a generator is called, "playing" after it returned,
                  \* "results" when the statistics and payouts are shown
    format,       \* "8-player" or "12-player": which generator startTournament calls
    playerNames,  \* the player list handed to the generator
    customTeams,  \* the optional customTeams argument: <<>> is undefined, <<t>> is t
    rounds,       \* the schedule: a sequence of Round records
    sideBets,     \* the side bets: a sequence of SideBet records
    shuffleResult, \* the array the last call of shuffleArray returned
    alert,        \* the message of the last alert, "none" when there was none
    error         \* the message of the Error a generator threw, "none" otherwise

vars == <<stage, format, playerNames, customTeams, rounds, sideBets, shuffleResult, alert, error>>

-----------------------------------------------------------------------------
(* Bounds of the model *)

\* A shuffle of more than 8 elements is explored for the draws in which at most
\* MaxSwaps iterations pick an index j other than i (every j in 0 .. i is drawn);
\* a shuffle of up to 8 elements is explored for every sequence of draws.
MaxSwaps == 2

\* shuffleArray on its own is explored for arrays of up to MaxShuffle elements,
\* with every sequence of draws.
MaxShuffle == 5

\* The schedules whose scores are recorded have StatRounds rounds, and scores
\* are recorded on at most MaxScored of their games.
StatRounds == 2

MaxScored == 2

\* The scores recorded: a score of 0, the 21 points of a game, a score above 21.
ScoreSet == {0, 21, 22}

\* In the full schedules whose payouts are computed, the scores of the first
\* FreeGames games are explored; the later games are unscored or hold the scores
\* recorded earlier in the session.
FreeGames == 4

\* At most MaxBets side bets are in the list at a time.
MaxBets == 2

\* In the custom pairing form the last EditableTeams of the six teams are
\* added, changed and removed; the teams before them are filled in.
EditableTeams == 2

\* The entry fees the payouts are computed for: none, the app's fee of 2, another.
EntryFees == {0, 2, 5}

\* The scores explored there: a win of either side, a tie, an extended game.
PayScorePairs == {<<21, 19>>, <<19, 21>>, <<21, 21>>, <<0, 22>>}

-----------------------------------------------------------------------------
(* Arrays *)

At(arr, k) == arr[k + 1]

Range(s) == {s[k] : k \in DOMAIN s}

NoTeams == <<>>

Players8 == <<"A", "B", "C", "D", "E", "F", "G", "H">>

Players12 == <<"A", "B", "C", "D", "E", "F", "G", "H", "I", "J", "K", "L">>

-----------------------------------------------------------------------------
(* shuffleArray *)

\* The values of Math.floor(Math.random() * i).
RandomIndexBelow(i) == 0 .. (i - 1)

\* The values of Math.floor(Math.random() * (i + 1)).
RandomIndex(i) == 0 .. i

\* [shuffled[i], shuffled[j]] = [shuffled[j], shuffled[i]]
Swap(shuffled, i, j) ==
    [shuffled EXCEPT ![i + 1] = At(shuffled, j), ![j + 1] = At(shuffled, i)]

\* The loop "for (let i = length - 1; i > 0; i--)" from index i on; js[i] is the
\* index j drawn in the iteration for i.
RECURSIVE ShuffleLoop(_, _, _)
ShuffleLoop(shuffled, i, js) ==
    IF i > 0 THEN ShuffleLoop(Swap(shuffled, i, js[i]), i - 1, js)
    ELSE shuffled

shuffleArray(array, js) == ShuffleLoop(array, Len(array) - 1, js)

\* All sequences of draws js[1 .. i]: js[k] is a value of RandomIndex(k).
RECURSIVE AllDraws(_)
AllDraws(i) ==
    IF i <= 0 THEN {<<>>}
    ELSE {Append(js, j) : js \in AllDraws(i - 1), j \in RandomIndex(i)}

\* The sequences of draws js[1 .. i] in which at most `swaps` draws differ from
\* their own index.
RECURSIVE DrawsUpTo(_, _)
DrawsUpTo(i, swaps) ==
    IF i <= 0 THEN {<<>>}
    ELSE {Append(js, i) : js \in DrawsUpTo(i - 1, swaps)}
         \cup (IF swaps > 0
                THEN {Append(js, j) : js \in DrawsUpTo(i - 1, swaps - 1),
                                      j \in RandomIndex(i) \ {i}}
                ELSE {})

\* The sequences of draws explored for one call of shuffleArray on n elements.
ShuffleDraws(n) == DrawsUpTo(n - 1, IF n <= 8 THEN n ELSE MaxSwaps)

-----------------------------------------------------------------------------
(* generateRoundRobinSchedule *)

\* An earlier template of the repository, in which partnerships repeat.
scheduleAnalyzed ==
    << << <<0, 1, 2, 3>>, <<4, 5, 6, 7>> >>,
       << <<0, 2, 1, 4>>, <<3, 6, 5, 7>> >>,
       << <<0, 3, 1, 5>>, <<2, 7, 4, 6>> >>,
       << <<0, 4, 1, 6>>, <<2, 5, 3, 7>> >>,
       << <<0, 5, 1, 7>>, <<2, 4, 3, 6>> >>,
       << <<0, 6, 2, 4>>, <<1, 3, 5, 7>> >>,
       << <<0, 7, 3, 4>>, <<1, 2, 5, 6>> >> >>

\* The round template: per round two games, per game the four positions
\* team1[0], team1[1], team2[0], team2[1].
schedule ==
    << << <<0, 1, 2, 3>>, <<4, 5, 6, 7>> >>,
       << <<0, 2, 4, 6>>, <<1, 3, 5, 7>> >>,
       << <<0, 3, 5, 6>>, <<1, 2, 4, 7>> >>,
       << <<0, 4, 3, 7>>, <<1, 5, 2, 6>> >>,
       << <<0, 5, 1, 4>>, <<2, 7, 3, 6>> >>,
       << <<0, 6, 1, 7>>, <<2, 4, 3, 5>> >>,
       << <<0, 7, 1, 6>>, <<2, 5, 3, 4>> >> >>

\* RoundsFromTemplate with team2 read one position early (gameIndices[1], [2]).
RoundsFromTemplateOffByOne(template, shuffledPlayers) ==
    [r \in 1 .. Len(template) |->
        [roundNumber |-> r,
         games |-> [g \in 1 .. Len(template[r]) |->
            LET gameIndices == template[r][g]
            IN  [id |-> (r - 1) * Len(template[r]) + g,
                 team1 |-> <<At(shuffledPlayers, At(gameIndices, 0)),
                             At(shuffledPlayers, At(gameIndices, 1))>>,
                 team2 |-> <<At(shuffledPlayers, At(gameIndices, 1)),
                             At(shuffledPlayers, At(gameIndices, 2))>>]]]]

\* RoundsFromTemplate with gameId set back to 1 at the start of every round.
RoundsFromTemplateIdsPerRound(template, shuffledPlayers) ==
    [r \in 1 .. Len(template) |->
        [roundNumber |-> r,
         games |-> [g \in 1 .. Len(template[r]) |->
            LET gameIndices == template[r][g]
            IN  [id |-> g,
                 team1 |-> <<At(shuffledPlayers, At(gameIndices, 0)),
                             At(shuffledPlayers, At(gameIndices, 1))>>,
                 team2 |-> <<At(shuffledPlayers, At(gameIndices, 2)),
                             At(shuffledPlayers, At(gameIndices, 3))>>]]]]

\* The body of schedule.forEach: gameId++ numbers the games in round order.
RoundsFromTemplate(template, shuffledPlayers) ==
    [r \in 1 .. Len(template) |->
        [roundNumber |-> r,
         games |-> [g \in 1 .. Len(template[r]) |->
            LET gameIndices == template[r][g]
            IN  [id |-> (r - 1) * Len(template[r]) + g,
                 team1 |-> <<At(shuffledPlayers, At(gameIndices, 0)),
                             At(shuffledPlayers, At(gameIndices, 1))>>,
                 team2 |-> <<At(shuffledPlayers, At(gameIndices, 2)),
                             At(shuffledPlayers, At(gameIndices, 3))>>]]]]

\* if (players.length !== 8) throw new Error('Exactly 8 players are required')
Throws8(players) == Len(players) # 8

generateRoundRobinSchedule(players, js) ==
    RoundsFromTemplate(schedule, shuffleArray(players, js))

-----------------------------------------------------------------------------
(* generate12PlayerSchedule *)

\* The length check rejecting only lists that are too short.
Throws12TooShortOnly(players) == Len(players) < 12

\* if (players.length !== 12) throw new Error('Exactly 12 players are required')
Throws12(players) == Len(players) # 12

\* The pairing loop stepping by one: consecutive teams share a player.
PairUpStepOne(shuffledPlayers) ==
    [t \in 1 .. 6 |-> <<At(shuffledPlayers, t - 1), At(shuffledPlayers, t)>>]

\* for (let i = 0; i < 12; i += 2) teams.push([shuffledPlayers[i], shuffledPlayers[i + 1]])
PairUp(shuffledPlayers) ==
    [t \in 1 .. 6 |-> <<At(shuffledPlayers, 2 * (t - 1)),
                        At(shuffledPlayers, 2 * (t - 1) + 1)>>]

\* The test taking the first six of more than six teams.
UsesCustomTeamsAtLeastSix(custom) == custom # NoTeams /\ Len(custom[1]) >= 6

\* customTeams && customTeams.length === 6
UsesCustomTeams(custom) == custom # NoTeams /\ Len(custom[1]) = 6

\* The rotation putting the popped team back where it was: push(pop()).
RotateTeamsBack(rotatingTeams) == rotatingTeams

\* rotatingTeams.unshift(rotatingTeams.pop()!)
RotateTeams(rotatingTeams) ==
    <<rotatingTeams[Len(rotatingTeams)]>>
        \o SubSeq(rotatingTeams, 1, Len(rotatingTeams) - 1)

\* The games of one round: team 0 against rotatingTeams[0], then for i = 1, 2
\* rotatingTeams[i] against rotatingTeams[5 - i]; gameId++ at each push.
CircleGames(teams, rotatingTeams, gameId) ==
    << [id |-> gameId,
        team1 |-> At(teams, 0),
        team2 |-> At(teams, At(rotatingTeams, 0))] >>
    \o [i \in 1 .. 2 |->
        [id |-> gameId + i,
         team1 |-> At(teams, At(rotatingTeams, i)),
         team2 |-> At(teams, At(rotatingTeams, 5 - i))]]

\* for (let round = 0; round < 5; round++) from `round` on.
RECURSIVE CircleRounds(_, _, _, _)
CircleRounds(teams, rotatingTeams, round, gameId) ==
    IF round < 5
    THEN << [roundNumber |-> round + 1,
             games |-> CircleGames(teams, rotatingTeams, gameId)] >>
         \o CircleRounds(teams, RotateTeams(rotatingTeams), round + 1, gameId + 3)
    ELSE <<>>

\* The teams the schedule is built on: customTeams when six were supplied,
\* otherwise the shuffled players paired up.
TeamsFor(players, custom, js) ==
    IF UsesCustomTeams(custom) THEN custom[1]
    ELSE PairUp(shuffleArray(players, js))

generate12PlayerSchedule(players, custom, js) ==
    CircleRounds(TeamsFor(players, custom, js), <<1, 2, 3, 4, 5>>, 0, 1)

-----------------------------------------------------------------------------
(* setGameScore *)

\* { ...game, team1Score, team2Score }
WithScores(game, team1Score, team2Score) ==
    [f \in DOMAIN game \cup {"team1Score", "team2Score"} |->
        IF f = "team1Score" THEN team1Score
        ELSE IF f = "team2Score" THEN team2Score
        ELSE game[f]]

\* The map choosing the game by its place in the round instead of its id.
setGameScoreByIndex(prevRounds, gameId, team1Score, team2Score) ==
    [r \in DOMAIN prevRounds |->
        [prevRounds[r] EXCEPT !.games =
            [g \in DOMAIN @ |->
                IF g = gameId THEN WithScores(@[g], team1Score, team2Score)
                ELSE @[g]]]]

\* prevRounds.map(round => ({ ...round, games: round.games.map(game =>
\*     game.id === gameId ? { ...game, team1Score, team2Score } : game) }))
setGameScore(prevRounds, gameId, team1Score, team2Score) ==
    [r \in DOMAIN prevRounds |->
        [prevRounds[r] EXCEPT !.games =
            [g \in DOMAIN @ |->
                IF @[g].id = gameId THEN WithScores(@[g], team1Score, team2Score)
                ELSE @[g]]]]

-----------------------------------------------------------------------------
(* calculatePlayerStats *)

MAX_POINTS_PER_GAME == 21

\* The scored-game test that takes a score of 0 for a missing one.
IsScoredTruthy(game) ==
    /\ "team1Score" \in DOMAIN game
    /\ "team2Score" \in DOMAIN game
    /\ game.team1Score # 0
    /\ game.team2Score # 0

\* game.team1Score !== undefined && game.team2Score !== undefined
IsScored(game) == "team1Score" \in DOMAIN game /\ "team2Score" \in DOMAIN game

\* The stats object is the sequence of its entries in insertion order, each entry
\* carrying its key in the field player.
IndexOf(entries, key, field) ==
    CHOOSE k \in DOMAIN entries : entries[k][field] = key

HasKey(entries, key, field) == \E k \in DOMAIN entries : entries[k][field] = key

NewPlayerStats(player) ==
    [player |-> player, totalPoints |-> 0, pointsLost |-> 0, gamesPlayed |-> 0,
     wins |-> 0, losses |-> 0, gameScores |-> <<>>]

\* AddToPlayer with the score put at the front of gameScores (unshift for push).
AddToPlayerUnshift(stats, player, score, won) ==
    LET st == IF HasKey(stats, player, "player") THEN stats
              ELSE Append(stats, NewPlayerStats(player))
        k == IndexOf(st, player, "player")
    IN  [st EXCEPT ![k] =
            [@ EXCEPT !.totalPoints = @ + score,
                      !.pointsLost = @ + (MAX_POINTS_PER_GAME - score),
                      !.gameScores = <<score>> \o @,
                      !.gamesPlayed = @ + 1,
                      !.wins = IF won THEN @ + 1 ELSE @,
                      !.losses = IF won THEN @ ELSE @ + 1]]

\* AddToPlayer with the points lost in a game floored at 0.
AddToPlayerClamped(stats, player, score, won) ==
    LET st == IF HasKey(stats, player, "player") THEN stats
              ELSE Append(stats, NewPlayerStats(player))
        k == IndexOf(st, player, "player")
    IN  [st EXCEPT ![k] =
            [@ EXCEPT !.totalPoints = @ + score,
                      !.pointsLost = @ + (IF score > MAX_POINTS_PER_GAME THEN 0
                                          ELSE MAX_POINTS_PER_GAME - score),
                      !.gameScores = Append(@, score),
                      !.gamesPlayed = @ + 1,
                      !.wins = IF won THEN @ + 1 ELSE @,
                      !.losses = IF won THEN @ ELSE @ + 1]]

\* The body of game.team1.forEach / game.team2.forEach for one player; `won` is
\* team1Won for a team1 player and !team1Won for a team2 player.
AddToPlayer(stats, player, score, won) ==
    LET st == IF HasKey(stats, player, "player") THEN stats
              ELSE Append(stats, NewPlayerStats(player))
        k == IndexOf(st, player, "player")
    IN  [st EXCEPT ![k] =
            [@ EXCEPT !.totalPoints = @ + score,
                      !.pointsLost = @ + (MAX_POINTS_PER_GAME - score),
                      !.gameScores = Append(@, score),
                      !.gamesPlayed = @ + 1,
                      !.wins = IF won THEN @ + 1 ELSE @,
                      !.losses = IF won THEN @ ELSE @ + 1]]

\* team.forEach((player) => ...) from the k-th player on.
RECURSIVE ForEachPlayer(_, _, _, _, _)
ForEachPlayer(stats, team, k, score, won) ==
    IF k > Len(team) THEN stats
    ELSE ForEachPlayer(AddToPlayer(stats, team[k], score, won), team, k + 1, score, won)

\* The folds below test the length of each intermediate object before going on,
\* so that the object is evaluated game by game as forEach does.

\* The body with team 2 winning on a strictly higher score only: a tie is a
\* loss for all four players.
PlayerStatsGameTieLost(stats, game) ==
    IF IsScored(game)
    THEN LET team1Score == game.team1Score
             team2Score == game.team2Score
             team1Won == team1Score > team2Score
         IN  ForEachPlayer(ForEachPlayer(stats, game.team1, 1, team1Score, team1Won),
                           game.team2, 1, team2Score, team2Score > team1Score)
    ELSE stats

\* The body of round.games.forEach for one game.
PlayerStatsGame(stats, game) ==
    IF IsScored(game)
    THEN LET team1Score == game.team1Score
             team2Score == game.team2Score
             team1Won == team1Score > team2Score
         IN  ForEachPlayer(ForEachPlayer(stats, game.team1, 1, team1Score, team1Won),
                           game.team2, 1, team2Score, ~team1Won)
    ELSE stats

RECURSIVE PlayerStatsGames(_, _, _)
PlayerStatsGames(stats, games, g) ==
    IF g > Len(games) THEN stats
    ELSE LET next == PlayerStatsGame(stats, games[g])
         IN  IF Len(next) >= 0 THEN PlayerStatsGames(next, games, g + 1) ELSE next

RECURSIVE PlayerStatsRounds(_, _, _)
PlayerStatsRounds(stats, rs, r) ==
    IF r > Len(rs) THEN stats
    ELSE LET next == PlayerStatsGames(stats, rs[r].games, 1)
         IN  IF Len(next) >= 0 THEN PlayerStatsRounds(next, rs, r + 1) ELSE next

calculatePlayerStats(rs) == PlayerStatsRounds(<<>>, rs, 1)

-----------------------------------------------------------------------------
(* calculateTeamStats *)

MAX_POINTS == 21

\* Array.prototype.sort without a comparator orders strings by their UTF-16 code
\* units (space 32 < "&" 38 < digits < letters; a proper prefix goes first).  The
\* player names of the model in that order.
NamesInCodeUnitOrder ==
    <<"10", "2", "A", "A & B", "B", "B & C", "C", "D", "E", "F", "G", "H", "I", "J",
      "K", "L", "M">>

CodeUnitRank(name) ==
    CHOOSE k \in DOMAIN NamesInCodeUnitOrder : NamesInCodeUnitOrder[k] = name

\* [...team].sort() of a two-element array.
SortedPair(team) ==
    IF CodeUnitRank(team[2]) < CodeUnitRank(team[1]) THEN <<team[2], team[1]>> ELSE team

\* [...team].sort().join(' & ')
TeamKey(team) == SortedPair(team)[1] \o " & " \o SortedPair(team)[2]

NewTeamStats(key, team) ==
    [teamName |-> key, players |-> team, wins |-> 0, losses |-> 0,
     pointsScored |-> 0, pointsConceded |-> 0, pointDifferential |-> 0,
     pointsLost |-> 0, gameScores |-> <<>>]

\* if (!teamMap.has(key)) teamMap.set(key, {...})
EnsureTeam(teamMap, key, team) ==
    IF HasKey(teamMap, key, "teamName") THEN teamMap
    ELSE Append(teamMap, NewTeamStats(key, team))

\* The four updates of one side: pointsScored, pointsConceded, pointsLost, gameScores.
AddPoints(teamMap, key, own, other) ==
    [teamMap EXCEPT ![IndexOf(teamMap, key, "teamName")] =
        [@ EXCEPT !.pointsScored = @ + own,
                  !.pointsConceded = @ + other,
                  !.pointsLost = @ + (MAX_POINTS - own),
                  !.gameScores = Append(@, own)]]

AddWin(teamMap, key) ==
    [teamMap EXCEPT ![IndexOf(teamMap, key, "teamName")].wins = @ + 1]

AddLoss(teamMap, key) ==
    [teamMap EXCEPT ![IndexOf(teamMap, key, "teamName")].losses = @ + 1]

\* stats.pointDifferential = stats.pointsScored - stats.pointsConceded
SetDifferential(teamMap, key) ==
    LET k == IndexOf(teamMap, key, "teamName")
    IN  [teamMap EXCEPT ![k].pointDifferential =
            teamMap[k].pointsScored - teamMap[k].pointsConceded]

\* The body of round.games.forEach for one game, statement by statement.
TeamStatsGame(teamMap, game) ==
    IF IsScored(game)
    THEN LET team1Key == TeamKey(game.team1)
             team2Key == TeamKey(game.team2)
             m1 == EnsureTeam(EnsureTeam(teamMap, team1Key, game.team1),
                              team2Key, game.team2)
             m2 == AddPoints(m1, team1Key, game.team1Score, game.team2Score)
             m3 == AddPoints(m2, team2Key, game.team2Score, game.team1Score)
             m4 == IF game.team1Score > game.team2Score
                   THEN AddLoss(AddWin(m3, team1Key), team2Key)
                   ELSE IF game.team2Score > game.team1Score
                   THEN AddLoss(AddWin(m3, team2Key), team1Key)
                   ELSE m3
         IN  SetDifferential(SetDifferential(m4, team1Key), team2Key)
    ELSE teamMap

RECURSIVE TeamStatsGames(_, _, _)
TeamStatsGames(teamMap, games, g) ==
    IF g > Len(games) THEN teamMap
    ELSE LET next == TeamStatsGame(teamMap, games[g])
         IN  IF Len(next) >= 0 THEN TeamStatsGames(next, games, g + 1) ELSE next

RECURSIVE TeamStatsRounds(_, _, _)
TeamStatsRounds(teamMap, rs, r) ==
    IF r > Len(rs) THEN teamMap
    ELSE LET next == TeamStatsGames(teamMap, rs[r].games, 1)
         IN  IF Len(next) >= 0 THEN TeamStatsRounds(next, rs, r + 1) ELSE next

\* (a, b) => b.wins !== a.wins ? b.wins - a.wins : b.pointDifferential - a.pointDifferential
CompareTeams(a, b) ==
    IF b.wins # a.wins THEN b.wins - a.wins
    ELSE b.pointDifferential - a.pointDifferential

\* A sort that puts x before the elements it compares equal to.
InsertTeamBeforeEqual(sorted, x) ==
    LET later == {k \in DOMAIN sorted : CompareTeams(x, sorted[k]) <= 0}
        at == IF later = {} THEN Len(sorted) + 1
              ELSE CHOOSE k \in later : \A m \in later : k <= m
    IN  SubSeq(sorted, 1, at - 1) \o <<x>> \o SubSeq(sorted, at, Len(sorted))

\* Array.prototype.sort is stable: x goes before the first element that the
\* comparator puts strictly after it.
InsertTeam(sorted, x) ==
    LET later == {k \in DOMAIN sorted : CompareTeams(x, sorted[k]) < 0}
        at == IF later = {} THEN Len(sorted) + 1
              ELSE CHOOSE k \in later : \A m \in later : k <= m
    IN  SubSeq(sorted, 1, at - 1) \o <<x>> \o SubSeq(sorted, at, Len(sorted))

RECURSIVE SortTeams(_, _, _)
SortTeams(sorted, entries, k) ==
    IF k > Len(entries) THEN sorted
    ELSE LET next == InsertTeam(sorted, entries[k])
         IN  IF Len(next) >= 0 THEN SortTeams(next, entries, k + 1) ELSE next

calculateTeamStats(rs) == SortTeams(<<>>, TeamStatsRounds(<<>>, rs, 1), 1)

-----------------------------------------------------------------------------
(* Objects keyed by player name *)

\* An object { [player: string]: ... } is the sequence of its entries in the
\* order the keys were created.  A key that is a canonical array index ("2",
\* "10") is an integer key; every other name of the model is a string key.
ArrayIndex(name) == IF name = "2" THEN 2 ELSE IF name = "10" THEN 10 ELSE -1

\* The integer-keyed entries of obj in ascending order of their index.
RECURSIVE IntegerKeyed(_, _)
IntegerKeyed(obj, above) ==
    LET idx == {k \in DOMAIN obj : ArrayIndex(obj[k].player) > above}
    IN  IF idx = {} THEN <<>>
        ELSE LET k == CHOOSE x \in idx :
                        \A y \in idx : ArrayIndex(obj[x].player) <= ArrayIndex(obj[y].player)
             IN  <<obj[k]>> \o IntegerKeyed(obj, ArrayIndex(obj[k].player))

\* The string-keyed entries of obj in creation order.
RECURSIVE StringKeyed(_, _)
StringKeyed(obj, k) ==
    IF k > Len(obj) THEN <<>>
    ELSE (IF ArrayIndex(obj[k].player) < 0 THEN <<obj[k]>> ELSE <<>>)
         \o StringKeyed(obj, k + 1)

\* Object.entries(obj): integer keys ascending, then string keys in creation order.
ObjectEntries(obj) == IntegerKeyed(obj, -1) \o StringKeyed(obj, 1)

\* obj[player] = value
SetAmount(obj, player, value) ==
    IF HasKey(obj, player, "player")
    THEN [obj EXCEPT ![IndexOf(obj, player, "player")].amount = value]
    ELSE Append(obj, [player |-> player, amount |-> value])

\* obj[player] || 0
AmountOrZero(obj, player) ==
    IF HasKey(obj, player, "player") THEN obj[IndexOf(obj, player, "player")].amount
    ELSE 0

-----------------------------------------------------------------------------
(* calculatePayouts *)

prizes == <<8, 6, 2>>

\* The comparison putting the most points lost first.
ComparePlayersDescending(a, b) == b.pointsLost - a.pointsLost

\* ([, a], [, b]) => a.pointsLost - b.pointsLost
ComparePlayers(a, b) == a.pointsLost - b.pointsLost

\* Array.prototype.sort is stable.
InsertPlayer(sorted, x) ==
    LET later == {k \in DOMAIN sorted : ComparePlayers(x, sorted[k]) < 0}
        at == IF later = {} THEN Len(sorted) + 1
              ELSE CHOOSE k \in later : \A m \in later : k <= m
    IN  SubSeq(sorted, 1, at - 1) \o <<x>> \o SubSeq(sorted, at, Len(sorted))

RECURSIVE SortPlayers(_, _, _)
SortPlayers(sorted, entries, k) ==
    IF k > Len(entries) THEN sorted
    ELSE LET next == InsertPlayer(sorted, entries[k])
         IN  IF Len(next) >= 0 THEN SortPlayers(next, entries, k + 1) ELSE next

\* Object.entries(stats).sort(...)
sortedPlayers(stats) == SortPlayers(<<>>, ObjectEntries(stats), 1)

\* The first forEach charging the players below the prize ranks only.
RECURSIVE ChargeEntryFeeBelowPrizes(_, _, _, _)
ChargeEntryFeeBelowPrizes(payouts, sorted, entryFee, k) ==
    IF k > Len(sorted) THEN payouts
    ELSE LET next == SetAmount(payouts, sorted[k].player,
                               IF k - 1 < Len(prizes) THEN 0 ELSE 0 - entryFee)
         IN  IF Len(next) >= 0 THEN ChargeEntryFeeBelowPrizes(next, sorted, entryFee, k + 1)
             ELSE next

\* sortedPlayers.forEach(([player]) => { payouts[player] = -entryFee })
RECURSIVE ChargeEntryFee(_, _, _, _)
ChargeEntryFee(payouts, sorted, entryFee, k) ==
    IF k > Len(sorted) THEN payouts
    ELSE LET next == SetAmount(payouts, sorted[k].player, 0 - entryFee)
         IN  IF Len(next) >= 0 THEN ChargeEntryFee(next, sorted, entryFee, k + 1) ELSE next

\* The second forEach with = in place of +=.
RECURSIVE AddPrizesOverwriting(_, _, _)
AddPrizesOverwriting(payouts, sorted, k) ==
    IF k > Len(sorted) THEN payouts
    ELSE LET next == IF k - 1 < Len(prizes)
                     THEN SetAmount(payouts, sorted[k].player, At(prizes, k - 1))
                     ELSE payouts
         IN  IF Len(next) >= 0 THEN AddPrizesOverwriting(next, sorted, k + 1) ELSE next

\* sortedPlayers.forEach(([player], index) => { if (index < prizes.length) payouts[player] += prizes[index] })
RECURSIVE AddPrizes(_, _, _)
AddPrizes(payouts, sorted, k) ==
    IF k > Len(sorted) THEN payouts
    ELSE LET next == IF k - 1 < Len(prizes)
                     THEN SetAmount(payouts, sorted[k].player,
                                    AmountOrZero(payouts, sorted[k].player)
                                        + At(prizes, k - 1))
                     ELSE payouts
         IN  IF Len(next) >= 0 THEN AddPrizes(next, sorted, k + 1) ELSE next

calculatePayouts(rs, entryFee) ==
    LET sorted == sortedPlayers(calculatePlayerStats(rs))
    IN  AddPrizes(ChargeEntryFee(<<>>, sorted, entryFee, 1), sorted, 1)

-----------------------------------------------------------------------------
(* calculate12PlayerPayouts *)

teamPrizes == <<6, 4, 2>>

\* team.players.forEach((player) => { payouts[player] = -entryFee })
ChargeTeam(payouts, team, entryFee) ==
    SetAmount(SetAmount(payouts, team.players[1], 0 - entryFee),
              team.players[2], 0 - entryFee)

RECURSIVE ChargeTeams(_, _, _, _)
ChargeTeams(payouts, teamStats, entryFee, k) ==
    IF k > Len(teamStats) THEN payouts
    ELSE LET next == ChargeTeam(payouts, teamStats[k], entryFee)
         IN  IF Len(next) >= 0 THEN ChargeTeams(next, teamStats, entryFee, k + 1) ELSE next

\* team.players.forEach((player) => { payouts[player] += teamPrizes[index] })
PayTeam(payouts, team, index) ==
    LET p1 == SetAmount(payouts, team.players[1],
                        AmountOrZero(payouts, team.players[1]) + At(teamPrizes, index))
    IN  SetAmount(p1, team.players[2],
                  AmountOrZero(p1, team.players[2]) + At(teamPrizes, index))

\* teamStats.slice(0, 3).forEach((team, index) => ...)
RECURSIVE PayTeams(_, _, _)
PayTeams(payouts, top, k) ==
    IF k > Len(top) THEN payouts
    ELSE LET next == PayTeam(payouts, top[k], k - 1)
         IN  IF Len(next) >= 0 THEN PayTeams(next, top, k + 1) ELSE next

calculate12PlayerPayouts(rs, entryFee) ==
    LET teamStats == calculateTeamStats(rs)
        top == SubSeq(teamStats, 1, IF Len(teamStats) < 3 THEN Len(teamStats) ELSE 3)
    IN  PayTeams(ChargeTeams(<<>>, teamStats, entryFee, 1), top, 1)

-----------------------------------------------------------------------------
(* calculateSideBetTotals and the payouts with side bets *)

\* team.forEach((player) => { totals[player] = (totals[player] || 0) + delta })
AddToTeam(totals, team, delta) ==
    LET t1 == SetAmount(totals, team[1], AmountOrZero(totals, team[1]) + delta)
    IN  SetAmount(t1, team[2], AmountOrZero(t1, team[2]) + delta)

\* The body without the forEach over the losing team: the winners gain and
\* nobody pays.
SideBetTotalWinnersOnly(totals, sideBet) ==
    IF sideBet.winner = 1
    THEN AddToTeam(totals, sideBet.team1, sideBet.amount)
    ELSE IF sideBet.winner = 2
    THEN AddToTeam(totals, sideBet.team2, sideBet.amount)
    ELSE totals

\* The body with a plain else for the second branch: every bet team 1 has not
\* won is settled for team 2.
SideBetTotalElse(totals, sideBet) ==
    IF sideBet.winner = 1
    THEN AddToTeam(AddToTeam(totals, sideBet.team1, sideBet.amount),
                   sideBet.team2, 0 - sideBet.amount)
    ELSE AddToTeam(AddToTeam(totals, sideBet.team2, sideBet.amount),
                   sideBet.team1, 0 - sideBet.amount)

\* The body of sideBets.forEach for one side bet.
SideBetTotal(totals, sideBet) ==
    IF sideBet.winner = 1
    THEN AddToTeam(AddToTeam(totals, sideBet.team1, sideBet.amount),
                   sideBet.team2, 0 - sideBet.amount)
    ELSE IF sideBet.winner = 2
    THEN AddToTeam(AddToTeam(totals, sideBet.team2, sideBet.amount),
                   sideBet.team1, 0 - sideBet.amount)
    ELSE totals

RECURSIVE SideBetTotals(_, _, _)
SideBetTotals(totals, bets, k) ==
    IF k > Len(bets) THEN totals
    ELSE LET next == SideBetTotal(totals, bets[k])
         IN  IF Len(next) >= 0 THEN SideBetTotals(next, bets, k + 1) ELSE next

calculateSideBetTotals(bets) == SideBetTotals(<<>>, bets, 1)

\* The forEach assigning the side-bet total in place of adding it.
RECURSIVE ApplySideBetsOverwriting(_, _, _)
ApplySideBetsOverwriting(payouts, entries, k) ==
    IF k > Len(entries) THEN payouts
    ELSE LET next == SetAmount(payouts, entries[k].player, entries[k].amount)
         IN  IF Len(next) >= 0 THEN ApplySideBetsOverwriting(next, entries, k + 1) ELSE next

\* Object.entries(sideBetTotals).forEach(([player, amount]) =>
\*     { payouts[player] = (payouts[player] || 0) + amount })
RECURSIVE ApplySideBets(_, _, _)
ApplySideBets(payouts, entries, k) ==
    IF k > Len(entries) THEN payouts
    ELSE LET next == SetAmount(payouts, entries[k].player,
                               AmountOrZero(payouts, entries[k].player) + entries[k].amount)
         IN  IF Len(next) >= 0 THEN ApplySideBets(next, entries, k + 1) ELSE next

calculatePayoutsWithSideBets(rs, entryFee, bets) ==
    ApplySideBets(calculatePayouts(rs, entryFee),
                  ObjectEntries(calculateSideBetTotals(bets)), 1)

calculate12PlayerPayoutsWithSideBets(rs, entryFee, bets) ==
    ApplySideBets(calculate12PlayerPayouts(rs, entryFee),
                  ObjectEntries(calculateSideBetTotals(bets)), 1)

-----------------------------------------------------------------------------
(* The calls *)

\* Player lists of the right and of wrong lengths.
PlayerLists ==
    {Players8, SubSeq(Players8, 1, 7), Append(Players8, "I"), <<>>,
     Players12, SubSeq(Players12, 1, 11), Append(Players12, "M")}

RotateLeft(s, k) == [x \in 1 .. Len(s) |-> s[((x - 1 + k) % Len(s)) + 1]]

\* Custom partitions of the twelve players into six teams.
CustomPartitions == {PairUp(RotateLeft(Players12, k)) : k \in 0 .. 11}

\* The customTeams arguments: none, or a partition.
CustomTeamsInputs == {NoTeams} \cup {<<t>> : t \in CustomPartitions}

InitGen ==
    /\ stage = "input"
    /\ format \in {"8-player", "12-player"}
    /\ playerNames \in PlayerLists
    /\ customTeams \in IF format = "12-player" THEN CustomTeamsInputs ELSE {NoTeams}
    /\ rounds = <<>>
    /\ sideBets = <<>>
    /\ shuffleResult = <<>>
    /\ alert = "none"
    /\ error = "none"

CallGenerateRoundRobinSchedule ==
    /\ stage = "input"
    /\ error = "none"
    /\ format = "8-player"
    /\ IF Throws8(playerNames)
       THEN /\ error' = "Exactly 8 players are required"
            /\ UNCHANGED <<shuffleResult, alert, stage, format, playerNames, customTeams,
                           rounds, sideBets>>
       ELSE \E js \in ShuffleDraws(Len(playerNames)) :
            /\ rounds' = generateRoundRobinSchedule(playerNames, js)
            /\ stage' = "playing"
            /\ UNCHANGED <<shuffleResult, alert, format, playerNames, customTeams, sideBets, error>>

CallGenerate12PlayerSchedule ==
    /\ stage = "input"
    /\ error = "none"
    /\ format = "12-player"
    /\ IF Throws12(playerNames)
       THEN /\ error' = "Exactly 12 players are required"
            /\ UNCHANGED <<shuffleResult, alert, stage, format, playerNames, customTeams,
                           rounds, sideBets>>
       ELSE \E js \in (IF UsesCustomTeams(customTeams) THEN {<<>>}
                       ELSE ShuffleDraws(Len(playerNames))) :
            /\ rounds' = generate12PlayerSchedule(playerNames, customTeams, js)
            /\ stage' = "playing"
            /\ UNCHANGED <<shuffleResult, alert, format, playerNames, customTeams, sideBets, error>>

NextGen == CallGenerateRoundRobinSchedule \/ CallGenerate12PlayerSchedule

SpecGen == InitGen /\ [][NextGen]_vars

-----------------------------------------------------------------------------
(* generate12PlayerSchedule with customTeams of any length *)

\* customTeams arrays: six teams that pair the players up in another order, six
\* teams with names that are not players and a team listed twice, and arrays of
\* five, seven and no teams.
CustomTeamsArrays ==
    LET pairing == PairUp(RotateLeft(Players12, 3))
        foreign == << <<"X", "Y">>, <<"B", "A">>, <<"X", "Y">>,
                      <<"C", "M">>, <<"D", "D">>, <<"E", "F">> >>
    IN  {pairing, foreign, SubSeq(pairing, 1, 5), << <<"X", "Y">> >> \o pairing, <<>>}

InitCustom ==
    /\ stage = "input"
    /\ format = "12-player"
    /\ playerNames = Players12
    /\ customTeams \in {<<teams>> : teams \in CustomTeamsArrays}
    /\ rounds = <<>>
    /\ sideBets = <<>>
    /\ shuffleResult = <<>>
    /\ alert = "none"
    /\ error = "none"

NextCustom == CallGenerate12PlayerSchedule

SpecCustom == InitCustom /\ [][NextCustom]_vars

\* The draws that leave the array as it is: j = i in every iteration.
IdentityDraws(n) == [i \in 1 .. (n - 1) |-> i]

\* A schedule in play: the first rounds of an 8-player schedule.
BaseSchedule ==
    SubSeq(generateRoundRobinSchedule(Players8, IdentityDraws(8)), 1, StatRounds)

\* A schedule restored from the URL in which game 1 holds one score only.
OneScoreOnly(rs, field, score) ==
    [rs EXCEPT ![1].games[1] =
        [f \in DOMAIN @ \cup {field} |-> IF f = field THEN score ELSE @[f]]]

StatsSchedules ==
    {BaseSchedule,
     OneScoreOnly(BaseSchedule, "team1Score", 21),
     OneScoreOnly(BaseSchedule, "team2Score", 0)}

InitStats ==
    /\ stage = "playing"
    /\ format = "8-player"
    /\ playerNames = Players8
    /\ customTeams = NoTeams
    /\ rounds \in StatsSchedules
    /\ sideBets = <<>>
    /\ shuffleResult = <<>>
    /\ alert = "none"
    /\ error = "none"

\* The games with both scores recorded, by id.
ScoredIds(rs) ==
    UNION {{rs[r].games[g].id : g \in {x \in DOMAIN rs[r].games : IsScored(rs[r].games[x])}} :
              r \in DOMAIN rs}

GameIds(rs) == UNION {{rs[r].games[g].id : g \in DOMAIN rs[r].games} : r \in DOMAIN rs}

\* GameCard.handleScoreSubmit: both inputs parse to numbers >= 0, then
\* onSetScore(score1, score2) = setGameScore(game.id, score1, score2).  Scores are
\* recorded on at most MaxScored games; a recorded score may be overwritten.
CallSetGameScore ==
    /\ stage = "playing"
    /\ LET scoredIds == ScoredIds(rounds)
       IN  \E gameId \in GameIds(rounds) :
             /\ gameId \in scoredIds \/ Cardinality(scoredIds) < MaxScored
             /\ \E team1Score \in ScoreSet, team2Score \in ScoreSet :
                   rounds' = setGameScore(rounds, gameId, team1Score, team2Score)
    /\ UNCHANGED <<shuffleResult, alert, stage, format, playerNames, customTeams, sideBets, error>>

NextStats == CallSetGameScore

SpecStats == InitStats /\ [][NextStats]_vars

-----------------------------------------------------------------------------
(* shuffleArray on its own *)

InitShuffle ==
    /\ stage = "input"
    /\ format = "8-player"
    /\ playerNames \in {SubSeq(Players8, 1, n) : n \in 0 .. MaxShuffle}
    /\ customTeams = NoTeams
    /\ rounds = <<>>
    /\ sideBets = <<>>
    /\ shuffleResult = <<>>
    /\ alert = "none"
    /\ error = "none"

\* const shuffledPlayers = shuffleArray(players)
CallShuffleArray ==
    /\ \E js \in AllDraws(Len(playerNames) - 1) :
          shuffleResult' = shuffleArray(playerNames, js)
    /\ UNCHANGED <<stage, format, playerNames, customTeams, rounds, sideBets, alert, error>>

NextShuffle == CallShuffleArray

SpecShuffle == InitShuffle /\ [][NextShuffle]_vars

-----------------------------------------------------------------------------
(* Full schedules in play *)

\* Twelve names of which two contain the separator of a team name.
Players12Separator ==
    <<"A & B", "C", "A", "B & C", "E", "F", "G", "H", "I", "J", "K", "L">>

\* Eight names of which two are numbers.
Players8Numbered == <<"A", "B", "C", "D", "E", "F", "10", "2">>

\* The scores recorded earlier in the session on game id.
EarlierScores(pattern, id) ==
    IF pattern = "ties" THEN <<21, 21>>
    ELSE IF id % 2 = 0 THEN <<21, 10 + (id % 5)>>
    ELSE <<12 + (id % 4), 21>>

\* setGameScore on the games id .. last, one call per game.
RECURSIVE ScoredEarlier(_, _, _, _)
ScoredEarlier(rs, pattern, id, last) ==
    IF id > last THEN rs
    ELSE ScoredEarlier(setGameScore(rs, id, EarlierScores(pattern, id)[1],
                                    EarlierScores(pattern, id)[2]),
                       pattern, id + 1, last)

\* A schedule as generated, and with its games after the first FreeGames scored.
InPlay(rs) ==
    {rs} \cup {ScoredEarlier(rs, pattern, FreeGames + 1, Cardinality(GameIds(rs))) :
                  pattern \in {"ties", "varied"}}

\* A schedule restored from the URL in which game 1 lists its first team in the
\* other order.
WithTeamReversed(rs) == [rs EXCEPT ![1].games[1].team1 = <<@[2], @[1]>>]

Schedules12 ==
    LET plain == generate12PlayerSchedule(Players12, NoTeams, IdentityDraws(12))
    IN  {<<Players12, rs>> : rs \in InPlay(plain) \cup InPlay(WithTeamReversed(plain))}
        \cup {<<Players12Separator, rs>> :
                 rs \in InPlay(generate12PlayerSchedule(Players12Separator, NoTeams,
                                                        IdentityDraws(12)))}

Schedules8 ==
    UNION {{<<names, rs>> :
               rs \in InPlay(generateRoundRobinSchedule(names, IdentityDraws(8)))} :
              names \in {Players8, Players8Numbered}}

InitTeams ==
    /\ stage = "playing"
    /\ format = "12-player"
    /\ \E s \in Schedules12 : playerNames = s[1] /\ rounds = s[2]
    /\ customTeams = NoTeams
    /\ sideBets = <<>>
    /\ shuffleResult = <<>>
    /\ alert = "none"
    /\ error = "none"

InitPay ==
    /\ stage = "playing"
    /\ format = "8-player"
    /\ \E s \in Schedules8 : playerNames = s[1] /\ rounds = s[2]
    /\ customTeams = NoTeams
    /\ sideBets = <<>>
    /\ shuffleResult = <<>>
    /\ alert = "none"
    /\ error = "none"

\* GameCard.handleScoreSubmit on the first game without scores, in schedule order.
CallSetNextGameScore ==
    /\ stage = "playing"
    /\ LET unscored == GameIds(rounds) \ ScoredIds(rounds)
       IN  /\ unscored # {}
           /\ LET gameId == CHOOSE x \in unscored : \A y \in unscored : x <= y
              IN  /\ gameId <= FreeGames
                  /\ \E pair \in PayScorePairs :
                        rounds' = setGameScore(rounds, gameId, pair[1], pair[2])
    /\ UNCHANGED <<shuffleResult, alert, stage, format, playerNames, customTeams, sideBets, error>>

NextTeams == CallSetNextGameScore

SpecTeams == InitTeams /\ [][NextTeams]_vars

NextPay == CallSetNextGameScore

SpecPay == InitPay /\ [][NextPay]_vars

-----------------------------------------------------------------------------
(* The custom pairing form and startTournament *)

\* playerNames.filter((name) => name.trim() !== '')
filledNames(names) == SelectSeq(names, LAMBDA name : name # "")

\* newTeams[teamIndex][playerIndex] = value, on a team that exists and on one
\* that does not (then ['', ''] is put there first).
handleTeamChange(teams, teamIndex, playerIndex, value) ==
    LET team == IF teamIndex < Len(teams) THEN At(teams, teamIndex) ELSE <<"", "">>
        changed == [team EXCEPT ![playerIndex + 1] = value]
    IN  IF teamIndex < Len(teams) THEN [teams EXCEPT ![teamIndex + 1] = changed]
        ELSE Append(teams, changed)

\* if (customTeams.length < 6) onTeamsChange([...customTeams, ['', '']])
addTeam(teams) == IF Len(teams) < 6 THEN Append(teams, <<"", "">>) ELSE teams

\* customTeams.filter((_, index) => index !== teamIndex)
removeTeam(teams, teamIndex) ==
    SubSeq(teams, 1, teamIndex) \o SubSeq(teams, teamIndex + 2, Len(teams))

\* The names not assigned to another slot: the slots of the other teams and the
\* other slot of this team, the empty ones left out.
getAvailablePlayers(names, teams, teamIndex, playerIndex) ==
    LET assignedPlayers ==
            {At(teams, idx)[slot] :
                <<idx, slot>> \in {x \in (0 .. (Len(teams) - 1)) \X {1, 2} :
                                      /\ x[1] # teamIndex \/ x[2] # playerIndex + 1
                                      /\ At(teams, x[1])[x[2]] # ""}}
    IN  {name \in Range(names) : name \notin assignedPlayers}

\* The options of a select: "Select Player", the available players, and the
\* value the slot holds.
SelectOptions(names, teams, teamIndex, playerIndex) ==
    {""} \cup getAvailablePlayers(names, teams, teamIndex, playerIndex)
         \cup {At(teams, teamIndex)[playerIndex + 1]}

\* The Set startTournament collects: team[0] and team[1] of every team.
assignedPlayers(teams) == UNION {{teams[k][1], teams[k][2]} : k \in DOMAIN teams}

\* The message startTournament alerts with, "none" when it goes on to generate.
StartAlert(names, custom, expectedCount) ==
    IF Len(filledNames(names)) # expectedCount
    THEN IF expectedCount = 8 THEN "Please enter exactly 8 player names"
         ELSE "Please enter exactly 12 player names"
    ELSE IF expectedCount = 12 /\ custom # NoTeams /\ Len(custom[1]) # 6
    THEN "Please create exactly 6 teams"
    ELSE IF /\ expectedCount = 12
            /\ custom # NoTeams
            /\ Cardinality(assignedPlayers(custom[1])) # Len(filledNames(names))
    THEN "All players must be assigned to a team"
    ELSE "none"

\* The team indexes the form is explored on.
EditableIndexes(teams) == {i \in 0 .. (Len(teams) - 1) : i >= 6 - EditableTeams}

\* Custom pairing is ticked and the first teams are filled in with the first
\* players; the last player name is entered or still empty.
InitStart ==
    /\ stage = "input"
    /\ format = "12-player"
    /\ playerNames \in {Players12, [Players12 EXCEPT ![12] = ""]}
    /\ customTeams = <<SubSeq(PairUp(Players12), 1, 6 - EditableTeams)>>
    /\ rounds = <<>>
    /\ sideBets = <<>>
    /\ shuffleResult = <<>>
    /\ alert = "none"
    /\ error = "none"

CallAddTeam ==
    /\ stage = "input"
    /\ customTeams # NoTeams
    /\ Len(customTeams[1]) < 6
    /\ customTeams' = <<addTeam(customTeams[1])>>
    /\ UNCHANGED <<shuffleResult, alert, stage, format, playerNames, rounds, sideBets, error>>

CallHandleTeamChange ==
    /\ stage = "input"
    /\ customTeams # NoTeams
    /\ \E teamIndex \in EditableIndexes(customTeams[1]), playerIndex \in {0, 1} :
          \E value \in SelectOptions(filledNames(playerNames), customTeams[1],
                                     teamIndex, playerIndex) :
              customTeams' = <<handleTeamChange(customTeams[1], teamIndex, playerIndex, value)>>
    /\ UNCHANGED <<shuffleResult, alert, stage, format, playerNames, rounds, sideBets, error>>

CallRemoveTeam ==
    /\ stage = "input"
    /\ customTeams # NoTeams
    /\ \E teamIndex \in EditableIndexes(customTeams[1]) :
          customTeams' = <<removeTeam(customTeams[1], teamIndex)>>
    /\ UNCHANGED <<shuffleResult, alert, stage, format, playerNames, rounds, sideBets, error>>

\* startTournament in the 12-player format.
CallStartTournament ==
    /\ stage = "input"
    /\ format = "12-player"
    /\ LET message == StartAlert(playerNames, customTeams, 12)
       IN  IF message # "none"
           THEN /\ alert' = message
                /\ UNCHANGED <<shuffleResult, stage, format, playerNames, customTeams,
                               rounds, sideBets, error>>
           ELSE \E js \in (IF UsesCustomTeams(customTeams) THEN {<<>>}
                           ELSE ShuffleDraws(Len(playerNames))) :
                /\ rounds' = generate12PlayerSchedule(playerNames, customTeams, js)
                /\ stage' = "playing"
                /\ UNCHANGED <<shuffleResult, alert, format, playerNames, customTeams,
                               sideBets, error>>

NextStart == CallAddTeam \/ CallHandleTeamChange \/ CallRemoveTeam \/ CallStartTournament

SpecStart == InitStart /\ [][NextStart]_vars

-----------------------------------------------------------------------------
(* The side bets *)

\* winner: 1 | 2 | null.  The model writes null as 0.
null == 0

\* id: Date.now().  The ids are only compared for equality, and the time of a new
\* bet is none of the ids in the list: the model takes the least id not in use.
FreshId(bets) ==
    CHOOSE n \in 1 .. (Len(bets) + 1) :
        /\ \A k \in DOMAIN bets : bets[k].id # n
        /\ \A m \in 1 .. (n - 1) : \E k \in DOMAIN bets : bets[k].id = m

\* The forms handleAddSideBet accepts are those with four different players and a
\* positive amount.  The forms of the model, by the places of the players in
\* playerNames: <<team1, team2, amount>>.
SideBetForms(names) ==
    {<<<<names[1], names[2]>>, <<names[3], names[4]>>, 5>>,
     <<<<names[1], names[3]>>, <<names[2], names[Len(names)]>>, 1>>,
     <<<<names[Len(names)], names[Len(names) - 1]>>, <<names[1], names[2]>>, 5>>}

\* setSideBets([...sideBets, sideBet])
addSideBet(bets, sideBet) == Append(bets, sideBet)

\* sideBets.map(bet => bet.id === id ? { ...bet, winner } : bet)
updateSideBet(bets, id, winner) ==
    [k \in DOMAIN bets |-> IF bets[k].id = id THEN [bets[k] EXCEPT !.winner = winner]
                           ELSE bets[k]]

\* sideBets.filter(bet => bet.id !== id)
RECURSIVE deleteSideBet(_, _)
deleteSideBet(bets, id) ==
    IF bets = <<>> THEN <<>>
    ELSE (IF Head(bets).id # id THEN <<Head(bets)>> ELSE <<>>)
         \o deleteSideBet(Tail(bets), id)

\* The results of a tournament restored from the URL: one game scored, or all.
SchedulesWithResults ==
    LET plain8 == generateRoundRobinSchedule(Players8, IdentityDraws(8))
        plain12 == generate12PlayerSchedule(Players12, NoTeams, IdentityDraws(12))
    IN  {<<"8-player", Players8, setGameScore(plain8, 1, 21, 19)>>,
         <<"8-player", Players8, ScoredEarlier(plain8, "varied", 1, 14)>>,
         <<"12-player", Players12, setGameScore(plain12, 1, 21, 19)>>,
         <<"12-player", Players12, ScoredEarlier(plain12, "varied", 1, 15)>>}

InitBets ==
    /\ stage = "results"
    /\ \E s \in SchedulesWithResults : format = s[1] /\ playerNames = s[2] /\ rounds = s[3]
    /\ customTeams = NoTeams
    /\ sideBets = <<>>
    /\ shuffleResult = <<>>
    /\ alert = "none"
    /\ error = "none"

\* SideBetsManager.handleAddSideBet -> onAddSideBet(newSideBet)
CallAddSideBet ==
    /\ stage = "results"
    /\ Len(sideBets) < MaxBets
    /\ \E form \in SideBetForms(playerNames) :
          sideBets' = addSideBet(sideBets, [id |-> FreshId(sideBets), team1 |-> form[1],
                                            team2 |-> form[2], amount |-> form[3],
                                            winner |-> null])
    /\ UNCHANGED <<shuffleResult, alert, stage, format, playerNames, customTeams, rounds, error>>

\* The winner buttons of a bet whose winner is null -> onUpdateSideBet(bet.id, 1 | 2)
CallUpdateSideBet ==
    /\ stage = "results"
    /\ \E k \in DOMAIN sideBets : \E winner \in {1, 2} :
          /\ sideBets[k].winner = null
          /\ sideBets' = updateSideBet(sideBets, sideBets[k].id, winner)
    /\ UNCHANGED <<shuffleResult, alert, stage, format, playerNames, customTeams, rounds, error>>

\* The delete button of a bet -> onDeleteSideBet(bet.id)
CallDeleteSideBet ==
    /\ stage = "results"
    /\ \E k \in DOMAIN sideBets : sideBets' = deleteSideBet(sideBets, sideBets[k].id)
    /\ UNCHANGED <<shuffleResult, alert, stage, format, playerNames, customTeams, rounds, error>>

NextBets == CallAddSideBet \/ CallUpdateSideBet \/ CallDeleteSideBet

SpecBets == InitBets /\ [][NextBets]_vars

-----------------------------------------------------------------------------
(* Reading a schedule *)

\* The games of a schedule in schedule order: rounds in order, games in order
\* within a round.
RECURSIVE GamesFrom(_, _)
GamesFrom(rs, r) ==
    IF r > Len(rs) THEN <<>> ELSE rs[r].games \o GamesFrom(rs, r + 1)

AllGames(rs) == GamesFrom(rs, 1)

\* The two sides of a game as unordered pairs.
Sides(game) == {Range(game.team1), Range(game.team2)}

\* The sides of the games gs[k], gs[k + 1], ... in order, team1 before team2.
RECURSIVE SideSeqFrom(_, _)
SideSeqFrom(gs, k) ==
    IF k > Len(gs) THEN <<>>
    ELSE <<Range(gs[k].team1), Range(gs[k].team2)>> \o SideSeqFrom(gs, k + 1)

\* The four slots of a game, and the players in them.
Slots(game) == game.team1 \o game.team2

PlayersOf(game) == Range(game.team1) \cup Range(game.team2)

\* The unordered pairs of distinct members of a set.
PairsOf(S) == {{a, b} : a \in S, b \in S} \ {{a} : a \in S}

Generated8 == format = "8-player" /\ stage = "playing"

Generated12 == format = "12-player" /\ stage = "playing"

-----------------------------------------------------------------------------
(* The generated schedules *)

\* C1: in a schedule generateRoundRobinSchedule returned for 8 distinct players,
\* whatever the shuffle drew, there are 14 games and every unordered pair of
\* players is one side (team1 or team2) of exactly one of them.
C1_EveryPairPartnersExactlyOnce ==
    Generated8 =>
        LET gs == AllGames(rounds)
            partnerships == {<<k, Range(gs[k].team1)>> : k \in DOMAIN gs}
                                \cup {<<k, Range(gs[k].team2)>> : k \in DOMAIN gs}
        IN  /\ Len(gs) = 14
            /\ \A pair \in PairsOf(Range(playerNames)) :
                  Cardinality({x \in partnerships : x[2] = pair}) = 1

C1_Witness ==
    /\ Generated8
    /\ rounds[1].games[1].team1 = <<"H", "C">>
    /\ rounds[7].games[2].team2 = <<"A", "F">>

\* C2: the schedule has exactly 7 rounds of exactly 2 games; in every round each
\* of the 8 players fills exactly one of the eight slots, so each player is in
\* exactly 7 games.
C2_SevenRoundsPartitionThePlayers ==
    Generated8 =>
        LET gs == AllGames(rounds)
            players == Range(playerNames)
            playing == UNION {{<<k, p>> : p \in PlayersOf(gs[k])} : k \in DOMAIN gs}
        IN  /\ Len(rounds) = 7
            /\ \A r \in DOMAIN rounds :
                  /\ Len(rounds[r].games) = 2
                  /\ LET slots == Slots(rounds[r].games[1]) \o Slots(rounds[r].games[2])
                     IN  \A p \in players :
                            Cardinality({k \in DOMAIN slots : slots[k] = p}) = 1
            /\ \A p \in players :
                  Cardinality({x \in playing : x[2] = p}) = 7

C2_Witness ==
    /\ Generated8
    /\ rounds[4].games[1].team1 = <<"D", "A">>
    /\ rounds[4].games[2].team2 = <<"B", "G">>

\* C3: the 15 games generate12PlayerSchedule returned (teams paired at random or
\* given as a custom partition) realise every unordered pair of the 6 teams
\* exactly once.
C3_EveryTeamPairMeetsExactlyOnce ==
    Generated12 =>
        LET gs == AllGames(rounds)
            matchups == {<<k, Sides(gs[k])>> : k \in DOMAIN gs}
            teams == UNION {x[2] : x \in matchups}
        IN  /\ Len(gs) = 15
            /\ Cardinality(teams) = 6
            /\ \A pair \in PairsOf(teams) :
                  Cardinality({x \in matchups : x[2] = pair}) = 1

C3_Witness ==
    /\ Generated12
    /\ UsesCustomTeams(customTeams)
    /\ customTeams[1][1] = <<"B", "C">>
    /\ rounds[5].games[3].team2 = customTeams[1][6]

\* C4: without custom teams the schedule has exactly 5 rounds of exactly 3 games;
\* its sides are exactly 6 teams, pairwise disjoint, covering the 12 players; and
\* every team is in exactly one game of every round (so in exactly 5 games).
C4_FiveRoundsOfSixDisjointTeams ==
    (Generated12 /\ customTeams = NoTeams) =>
        /\ Len(rounds) = 5
        /\ \A r \in DOMAIN rounds : Len(rounds[r].games) = 3
        /\ LET sideSeq == SideSeqFrom(AllGames(rounds), 1)
               teams == Range(sideSeq)
           IN  /\ Cardinality(teams) = 6
               /\ UNION teams = Range(playerNames)
               /\ \A t \in teams :
                     /\ Cardinality(t) = 2
                     /\ \A u \in teams \ {t} : t \cap u = {}
                     /\ \A r \in 0 .. 4 :
                           Cardinality({k \in 1 .. 6 : sideSeq[6 * r + k] = t}) = 1
                     /\ Cardinality({k \in DOMAIN sideSeq : sideSeq[k] = t}) = 5

C4_Witness ==
    /\ Generated12
    /\ customTeams = NoTeams
    /\ rounds[1].games[1].team1 # <<"A", "B">>
    /\ rounds[3].games[2].team1 = rounds[1].games[2].team2

RequiredCount == IF format = "8-player" THEN 8 ELSE 12

RequiredMessage ==
    IF format = "8-player" THEN "Exactly 8 players are required"
    ELSE "Exactly 12 players are required"

\* C5: a generator call on a list whose length is not the required one (8, or 12
\* with or without custom teams) throws the format's message and produces no
\* schedule; a call on a list of the required length throws nothing.
C5_ThrowsExactlyOnWrongPlayerCount ==
    /\ stage = "playing" => (Len(playerNames) = RequiredCount /\ error = "none")
    /\ error # "none" =>
          /\ Len(playerNames) # RequiredCount
          /\ error = RequiredMessage
          /\ rounds = <<>>
          /\ stage = "input"

C5_Witness ==
    /\ error = "Exactly 12 players are required"
    /\ UsesCustomTeams(customTeams)
    /\ Len(playerNames) = 13

-----------------------------------------------------------------------------
(* The statistics *)

\* Both scores of a game are recorded.
BothRecorded(game) == {"team1Score", "team2Score"} \subseteq DOMAIN game

\* The score of p's own side and of the other side in a game p plays in.
OwnScore(game, p) ==
    IF p \in Range(game.team1) THEN game.team1Score ELSE game.team2Score

OtherScore(game, p) ==
    IF p \in Range(game.team1) THEN game.team2Score ELSE game.team1Score

\* The games of gs, from the k-th on and in order, that p plays in and that have
\* both scores recorded.
RECURSIVE RecordedGamesOf(_, _, _)
RecordedGamesOf(gs, k, p) ==
    IF k > Len(gs) THEN <<>>
    ELSE (IF BothRecorded(gs[k]) /\ p \in PlayersOf(gs[k]) THEN <<gs[k]>> ELSE <<>>)
         \o RecordedGamesOf(gs, k + 1, p)

RECURSIVE Sum(_)
Sum(seq) == IF seq = <<>> THEN 0 ELSE seq[1] + Sum(Tail(seq))

\* The entry of player p in the stats object, all zero when p has none.
EntryOf(stats, p) ==
    IF HasKey(stats, p, "player") THEN stats[IndexOf(stats, p, "player")]
    ELSE NewPlayerStats(p)

\* The schedule with the scores of its tied games taken away.
WithoutTies(rs) ==
    [r \in DOMAIN rs |->
        [rs[r] EXCEPT !.games =
            [g \in DOMAIN @ |->
                IF BothRecorded(@[g]) /\ @[g].team1Score = @[g].team2Score
                THEN [f \in DOMAIN @[g] \ {"team1Score", "team2Score"} |-> @[g][f]]
                ELSE @[g]]]]

\* C6: a scored game with equal scores adds to neither the wins nor the losses of
\* any of its four players: every player's wins and losses are those of the
\* schedule with the tied games left unscored.
C6_TieCountsForNeither ==
    LET stats == calculatePlayerStats(rounds)
        untied == calculatePlayerStats(WithoutTies(rounds))
    IN  \A p \in Range(playerNames) :
            /\ EntryOf(stats, p).wins = EntryOf(untied, p).wins
            /\ EntryOf(stats, p).losses = EntryOf(untied, p).losses

\* C7: a player's wins are the scored games in which the player's side has the
\* strictly higher score, and the losses those in which it has the strictly
\* lower score.
C7_WinsAndLossesByStrictComparison ==
    LET stats == calculatePlayerStats(rounds)
        gs == AllGames(rounds)
    IN  \A k \in DOMAIN stats :
            LET p == stats[k].player
                played == RecordedGamesOf(gs, 1, p)
            IN  /\ stats[k].wins =
                      Cardinality({i \in DOMAIN played :
                                      OwnScore(played[i], p) > OtherScore(played[i], p)})
                /\ stats[k].losses =
                      Cardinality({i \in DOMAIN played :
                                      OwnScore(played[i], p) < OtherScore(played[i], p)})

\* C8: for every player, totalPoints is the sum of the own side's score over the
\* scored games the player is in, gamesPlayed their number, and pointsLost the
\* sum of 21 - score over them, unclamped (negative when scores exceed 21).
C8_PointsGamesAndPointsLost ==
    LET stats == calculatePlayerStats(rounds)
        gs == AllGames(rounds)
    IN  \A p \in Range(playerNames) :
            LET played == RecordedGamesOf(gs, 1, p)
                own == [i \in DOMAIN played |-> OwnScore(played[i], p)]
            IN  played # <<>> =>
                    /\ HasKey(stats, p, "player")
                    /\ EntryOf(stats, p).totalPoints = Sum(own)
                    /\ EntryOf(stats, p).gamesPlayed = Len(played)
                    /\ EntryOf(stats, p).pointsLost =
                          Sum([i \in DOMAIN own |-> 21 - own[i]])

C8_Witness ==
    LET e == EntryOf(calculatePlayerStats(rounds), "A")
    IN  e.gamesPlayed = 2 /\ e.pointsLost = -1 /\ e.totalPoints = 43

\* C9: for every player, gameScores lists the own side's score of each scored
\* game the player is in, in schedule order, unscored games skipped.
C9_GameScoresInScheduleOrder ==
    LET stats == calculatePlayerStats(rounds)
        gs == AllGames(rounds)
    IN  \A k \in DOMAIN stats :
            LET p == stats[k].player
                played == RecordedGamesOf(gs, 1, p)
            IN  stats[k].gameScores = [i \in DOMAIN played |-> OwnScore(played[i], p)]

C9_Witness ==
    LET stats == calculatePlayerStats(rounds)
    IN  /\ EntryOf(stats, "A").gameScores = <<22, 0>>
        /\ EntryOf(stats, "E").gameScores = <<21>>
        /\ ~BothRecorded(rounds[1].games[2])

\* C10: a game counts in calculatePlayerStats and calculateTeamStats exactly when
\* both of its scores are recorded (a recorded 0 included, one score alone not):
\* the players (teams) with an entry are those of the games with both scores, and
\* each entry counts those games only.
C10_OnlyFullyScoredGamesCount ==
    LET stats == calculatePlayerStats(rounds)
        teamStats == calculateTeamStats(rounds)
        gs == AllGames(rounds)
        recorded == {k \in DOMAIN gs : BothRecorded(gs[k])}
    IN  /\ {stats[k].player : k \in DOMAIN stats}
              = UNION {PlayersOf(gs[k]) : k \in recorded}
        /\ \A k \in DOMAIN stats :
              stats[k].gamesPlayed =
                  Cardinality({i \in recorded : stats[k].player \in PlayersOf(gs[i])})
        /\ {Range(teamStats[k].players) : k \in DOMAIN teamStats}
              = UNION {Sides(gs[k]) : k \in recorded}
        /\ \A k \in DOMAIN teamStats :
              Len(teamStats[k].gameScores) =
                  Cardinality({i \in recorded :
                                  Range(teamStats[k].players) \in Sides(gs[i])})

C10_Witness ==
    /\ DOMAIN rounds[1].games[1] = {"id", "team1", "team2", "team1Score"}
    /\ BothRecorded(rounds[1].games[2])
    /\ rounds[1].games[2].team1Score = 0
    /\ ~HasKey(calculatePlayerStats(rounds), "A", "player")
    /\ HasKey(calculatePlayerStats(rounds), "E", "player")
    /\ Len(calculateTeamStats(rounds)) = 2

-----------------------------------------------------------------------------
(* The team statistics *)

\* The games of gs, from the k-th on and in order, that have both scores recorded
\* and the set T of two players as one of their sides.
RECURSIVE RecordedGamesOfTeam(_, _, _)
RecordedGamesOfTeam(gs, k, T) ==
    IF k > Len(gs) THEN <<>>
    ELSE (IF BothRecorded(gs[k]) /\ T \in Sides(gs[k]) THEN <<gs[k]>> ELSE <<>>)
         \o RecordedGamesOfTeam(gs, k + 1, T)

TeamScore(game, T) ==
    IF Range(game.team1) = T THEN game.team1Score ELSE game.team2Score

OpponentScore(game, T) ==
    IF Range(game.team1) = T THEN game.team2Score ELSE game.team1Score

\* The teams of the scored games: the sets of two players that are a side of one.
ScoredTeams(gs) == UNION {Sides(gs[k]) : k \in {x \in DOMAIN gs : BothRecorded(gs[x])}}

\* C11: calculateTeamStats returns exactly one record per team, a team being the
\* unordered pair of players on a side of a scored game, and the record's
\* pointsScored and pointsConceded are the sums of the team's own and of its
\* opponents' scores over the team's scored games, pointDifferential their
\* difference.
C11_OneRecordPerUnorderedPair ==
    LET teamStats == calculateTeamStats(rounds)
        gs == AllGames(rounds)
        teams == ScoredTeams(gs)
    IN  /\ Len(teamStats) = Cardinality(teams)
        /\ \A T \in teams :
              LET recs == {k \in DOMAIN teamStats : Range(teamStats[k].players) = T}
                  played == RecordedGamesOfTeam(gs, 1, T)
              IN  /\ Cardinality(recs) = 1
                  /\ \A k \in recs :
                        /\ teamStats[k].pointsScored =
                              Sum([i \in DOMAIN played |-> TeamScore(played[i], T)])
                        /\ teamStats[k].pointsConceded =
                              Sum([i \in DOMAIN played |-> OpponentScore(played[i], T)])
                        /\ teamStats[k].pointDifferential =
                              teamStats[k].pointsScored - teamStats[k].pointsConceded

\* The place at which the pair T is first met in the scored games of gs: games in
\* schedule order, team1 before team2.
FirstEncounter(gs, T) ==
    LET met == {2 * k : k \in {x \in DOMAIN gs : BothRecorded(gs[x]) /\ Range(gs[x].team1) = T}}
               \cup {2 * k + 1 :
                        k \in {x \in DOMAIN gs : BothRecorded(gs[x]) /\ Range(gs[x].team2) = T}}
    IN  CHOOSE x \in met : \A y \in met : x <= y

\* C12: the array calculateTeamStats returns is ordered by wins descending, then
\* by pointDifferential descending, and records equal on both are in the order
\* in which their teams were first met in the scored games.
C12_SortedByWinsThenDifferentialStable ==
    LET teamStats == calculateTeamStats(rounds)
        gs == AllGames(rounds)
    IN  \A i \in DOMAIN teamStats : \A j \in DOMAIN teamStats :
            i < j =>
                \/ teamStats[i].wins > teamStats[j].wins
                \/ /\ teamStats[i].wins = teamStats[j].wins
                   /\ teamStats[i].pointDifferential > teamStats[j].pointDifferential
                \/ /\ teamStats[i].wins = teamStats[j].wins
                   /\ teamStats[i].pointDifferential = teamStats[j].pointDifferential
                   /\ FirstEncounter(gs, Range(teamStats[i].players))
                         < FirstEncounter(gs, Range(teamStats[j].players))

\* All six teams are ranked, the team met first is not ranked first, two teams
\* are level on wins and another two on wins and differential.
C12_Witness ==
    LET teamStats == calculateTeamStats(rounds)
    IN  /\ Len(teamStats) = 6
        /\ teamStats[1].players # rounds[1].games[1].team1
        /\ \E i \in 1 .. 5 :
              /\ teamStats[i].wins = teamStats[i + 1].wins
              /\ teamStats[i].pointDifferential > teamStats[i + 1].pointDifferential
        /\ \E i \in 1 .. 5 :
              /\ teamStats[i].wins = teamStats[i + 1].wins
              /\ teamStats[i].pointDifferential = teamStats[i + 1].pointDifferential

-----------------------------------------------------------------------------
(* The payouts *)

\* The players of the scored games.
ScoredPlayers(gs) == UNION {PlayersOf(gs[k]) : k \in {x \in DOMAIN gs : BothRecorded(gs[x])}}

\* The place at which player p is first met in the scored games of gs: games in
\* schedule order, the players of team1 before those of team2.
FirstMet(gs, p) ==
    LET met == UNION {{4 * k + slot : slot \in {x \in 1 .. 4 : Slots(gs[k])[x] = p}} :
                         k \in {x \in DOMAIN gs : BothRecorded(gs[x])}}
    IN  CHOOSE x \in met : \A y \in met : x <= y

\* The points lost of p: 21 minus the own score, summed over p's scored games.
PointsLostOf(gs, p) ==
    LET played == RecordedGamesOf(gs, 1, p)
    IN  Sum([i \in DOMAIN played |-> 21 - OwnScore(played[i], p)])

\* The rank of p: one more than the number of players with fewer points lost, or
\* with as many and met earlier.  Given as the set of <<player, rank>>.
Ranking(gs) ==
    LET ranked == ScoredPlayers(gs)
        lost == {<<p, PointsLostOf(gs, p), FirstMet(gs, p)>> : p \in ranked}
    IN  {<<a[1], 1 + Cardinality({b \in lost : \/ b[2] < a[2]
                                               \/ b[2] = a[2] /\ b[3] < a[3]})>> :
            a \in lost}

PrizeOfRank(rank) == IF rank = 1 THEN 8 ELSE IF rank = 2 THEN 6 ELSE IF rank = 3 THEN 2 ELSE 0

\* C13: calculatePayouts has an entry for exactly the players of the scored games,
\* and the amount of the player ranked r-th by pointsLost ascending, equal
\* pointsLost in the order first met, is -entryFee plus 8, 6, 2 for r = 1, 2, 3
\* and plus nothing for r > 3.
C13_PrizesByPointsLostThenEncounter ==
    LET gs == AllGames(rounds)
        ranking == Ranking(gs)
    IN  \A entryFee \in EntryFees :
            LET payouts == calculatePayouts(rounds, entryFee)
            IN  /\ Len(payouts) = Cardinality(ranking)
                /\ \A pr \in ranking :
                      /\ HasKey(payouts, pr[1], "player")
                      /\ AmountOrZero(payouts, pr[1]) = PrizeOfRank(pr[2]) - entryFee

AllScored(rs) == ScoredIds(rs) = GameIds(rs)

\* The amounts of an object, in the order of its entries.
Amounts(obj) == [k \in DOMAIN obj |-> obj[k].amount]

\* The number of entries of an object with the amount v.
CountOf(obj, v) == Cardinality({k \in DOMAIN obj : obj[k].amount = v})

\* C14: for a generated 8-player schedule with all 14 games scored and entry fee
\* 2, calculatePayouts has an entry for each of the 8 players, the amounts are 6,
\* 4, 0 and five times -2, exactly three of them non-negative, and they sum to 0.
C14_FullSchedulePaysSixFourZero ==
    (format = "8-player" /\ Len(AllGames(rounds)) = 14 /\ AllScored(rounds)) =>
        LET payouts == calculatePayouts(rounds, 2)
        IN  /\ Len(payouts) = 8
            /\ {payouts[k].player : k \in DOMAIN payouts} = Range(playerNames)
            /\ CountOf(payouts, 6) = 1
            /\ CountOf(payouts, 4) = 1
            /\ CountOf(payouts, 0) = 1
            /\ CountOf(payouts, -2) = 5
            /\ Cardinality({k \in DOMAIN payouts : payouts[k].amount >= 0}) = 3
            /\ Sum(Amounts(payouts)) = 0

\* All 14 games are scored and all eight players are level on pointsLost.
C14_Witness ==
    /\ format = "8-player"
    /\ Len(AllGames(rounds)) = 14
    /\ AllScored(rounds)
    /\ \A p \in Range(playerNames) :
          PointsLostOf(AllGames(rounds), p) = PointsLostOf(AllGames(rounds), playerNames[1])
    /\ Len(calculatePayouts(rounds, 2)) = 8

\* C15: for a generated 12-player schedule with all 15 games scored and entry fee
\* 2, both members of the 1st, 2nd and 3rd team of calculateTeamStats net 4, 2
\* and 0, each of the other 6 players nets -2, the two members of a team get the
\* same amount, and the 12 amounts sum to 0.
C15_FullScheduleTeamPayouts ==
    (format = "12-player" /\ Len(AllGames(rounds)) = 15 /\ AllScored(rounds)) =>
        LET teamStats == calculateTeamStats(rounds)
            payouts == calculate12PlayerPayouts(rounds, 2)
            top == UNION {Range(teamStats[k].players) : k \in DOMAIN teamStats \cap 1 .. 3}
        IN  /\ Len(payouts) = 12
            /\ {payouts[k].player : k \in DOMAIN payouts} = Range(playerNames)
            /\ Len(teamStats) >= 3
            /\ \A p \in Range(teamStats[1].players) : AmountOrZero(payouts, p) = 4
            /\ \A p \in Range(teamStats[2].players) : AmountOrZero(payouts, p) = 2
            /\ \A p \in Range(teamStats[3].players) : AmountOrZero(payouts, p) = 0
            /\ Cardinality(Range(playerNames) \ top) = 6
            /\ \A p \in Range(playerNames) \ top : AmountOrZero(payouts, p) = -2
            /\ \A T \in ScoredTeams(AllGames(rounds)) : \A p \in T : \A q \in T :
                  AmountOrZero(payouts, p) = AmountOrZero(payouts, q)
            /\ Sum(Amounts(payouts)) = 0

\* C16: in every state reached from a generated schedule by recording scores,
\* the amounts of calculatePayouts (8 players) or calculate12PlayerPayouts (12
\* players) with entry fee 2 sum to 0.
C16_PayoutsAlwaysNetToZero ==
    Sum(Amounts(IF format = "8-player" THEN calculatePayouts(rounds, 2)
                ELSE calculate12PlayerPayouts(rounds, 2))) = 0

\* C17 as stated: for every entry fee the amounts of calculatePayouts sum to
\* 8 + 6 + 2 = 16 minus the number of players in the result times the entry fee,
\* also when few or no games have been scored.
C17_SumIsPrizesMinusFees ==
    \A entryFee \in EntryFees :
        LET payouts == calculatePayouts(rounds, entryFee)
        IN  Sum(Amounts(payouts)) = 16 - Len(payouts) * entryFee

\* The prizes awarded to a result of n players: those of the ranks that exist.
PrizesAwarded(n) == IF n >= 3 THEN 16 ELSE IF n = 2 THEN 14 ELSE IF n = 1 THEN 8 ELSE 0

\* C17 amended: for every entry fee the amounts of calculatePayouts sum to the
\* prizes awarded minus the number of players in the result times the entry fee;
\* the prizes awarded are 16 as soon as one game is scored (the result then has
\* at least three players), and with no game scored the result is empty and the
\* sum is 0.
C17_SumIsAwardedPrizesMinusFees ==
    \A entryFee \in EntryFees :
        LET payouts == calculatePayouts(rounds, entryFee)
        IN  /\ Sum(Amounts(payouts)) = PrizesAwarded(Len(payouts)) - Len(payouts) * entryFee
            /\ ScoredIds(rounds) # {} => Len(payouts) >= 3
            /\ ScoredIds(rounds) = {} => payouts = <<>>

\* One game only is scored: four players, and with entry fee 5 the sum is -4.
C17_Witness ==
    /\ Cardinality(ScoredIds(rounds)) = 1
    /\ Len(calculatePayouts(rounds, 5)) = 4
    /\ Sum(Amounts(calculatePayouts(rounds, 5))) = -4

-----------------------------------------------------------------------------
(* The side bets and the settlement *)

\* What a side bet brings player p: +amount on the winning side of a settled bet,
\* -amount on its losing side, nothing otherwise.
BetGain(bet, p) ==
    IF bet.winner = 1 /\ p \in Range(bet.team1) THEN bet.amount
    ELSE IF bet.winner = 1 /\ p \in Range(bet.team2) THEN 0 - bet.amount
    ELSE IF bet.winner = 2 /\ p \in Range(bet.team2) THEN bet.amount
    ELSE IF bet.winner = 2 /\ p \in Range(bet.team1) THEN 0 - bet.amount
    ELSE 0

BetGains(bets, p) == Sum([k \in DOMAIN bets |-> BetGain(bets[k], p)])

\* The players of the settled bets.
SettledPlayers(bets) ==
    UNION {Range(bets[k].team1) \cup Range(bets[k].team2) :
              k \in {x \in DOMAIN bets : bets[x].winner \in {1, 2}}}

\* C18: calculateSideBetTotals has an entry for exactly the players of the settled
\* bets (winner 1 or 2), and the entry is the sum over the settled bets of
\* +amount where the player is on the winning side and -amount where the player
\* is on the losing side; a bet with winner null adds nothing.
C18_SideBetTotalsOverSettledBets ==
    LET totals == calculateSideBetTotals(sideBets)
    IN  /\ {totals[k].player : k \in DOMAIN totals} = SettledPlayers(sideBets)
        /\ Len(totals) = Cardinality(SettledPlayers(sideBets))
        /\ \A k \in DOMAIN totals : totals[k].amount = BetGains(sideBets, totals[k].player)

\* A settled and an unsettled bet: the player who is in the unsettled bet only
\* has no entry, a player of both has the gain of the settled one.
C18_Witness ==
    /\ Len(sideBets) = 2
    /\ sideBets[1].winner = 2
    /\ sideBets[2].winner = null
    /\ \E p \in Range(sideBets[2].team2) :
          /\ p \notin SettledPlayers(sideBets)
          /\ ~HasKey(calculateSideBetTotals(sideBets), p, "player")
    /\ \E p \in Range(sideBets[1].team1) \cap Range(sideBets[2].team1) :
          AmountOrZero(calculateSideBetTotals(sideBets), p) = 0 - sideBets[1].amount

\* C19: the payouts with side bets have an entry for exactly the players with a
\* tournament payout or a side-bet total, and the entry is the tournament amount
\* (0 without one) plus the side-bet total (0 without one); a player of the side
\* bets only is not charged the entry fee.
C19_SettlementIsPayoutPlusSideBets ==
    \A entryFee \in EntryFees :
        LET tournament == IF format = "8-player" THEN calculatePayouts(rounds, entryFee)
                          ELSE calculate12PlayerPayouts(rounds, entryFee)
            settlement == IF format = "8-player"
                          THEN calculatePayoutsWithSideBets(rounds, entryFee, sideBets)
                          ELSE calculate12PlayerPayoutsWithSideBets(rounds, entryFee, sideBets)
            paid == {tournament[k].player : k \in DOMAIN tournament}
        IN  /\ {settlement[k].player : k \in DOMAIN settlement}
                  = paid \cup SettledPlayers(sideBets)
            /\ Len(settlement) = Cardinality(paid \cup SettledPlayers(sideBets))
            /\ \A k \in DOMAIN settlement :
                  LET p == settlement[k].player
                  IN  settlement[k].amount =
                          (IF p \in paid THEN AmountOrZero(tournament, p) ELSE 0)
                              + BetGains(sideBets, p)

\* One game is scored; the last player has no tournament payout and wins a side
\* bet of 5, and the winner of the tournament loses it.
C19_Witness ==
    LET last == playerNames[Len(playerNames)]
        tournament == IF format = "8-player" THEN calculatePayouts(rounds, 2)
                      ELSE calculate12PlayerPayouts(rounds, 2)
        settlement == IF format = "8-player"
                      THEN calculatePayoutsWithSideBets(rounds, 2, sideBets)
                      ELSE calculate12PlayerPayoutsWithSideBets(rounds, 2, sideBets)
    IN  /\ Cardinality(ScoredIds(rounds)) = 1
        /\ ~HasKey(tournament, last, "player")
        /\ AmountOrZero(settlement, last) = 5
        /\ HasKey(settlement, last, "player")
        /\ AmountOrZero(tournament, "A") > 0
        /\ AmountOrZero(settlement, "A") = AmountOrZero(tournament, "A") - 5

-----------------------------------------------------------------------------
(* The shuffle *)

RECURSIVE Factorial(_)
Factorial(n) == IF n <= 1 THEN 1 ELSE n * Factorial(n - 1)

\* C21: for N distinct elements every output of shuffleArray has the length and
\* the elements of the input, the input is the array it was, and the sequences
\* of draws (j in 0 .. i for i = N - 1 down to 1) map one-to-one onto the N!
\* permutations: there are N! sequences of draws and N! different outputs.
C21_ShuffleIsABijectionOntoPermutations ==
    LET N == Len(playerNames)
        draws == AllDraws(N - 1)
        outputs == {shuffleArray(playerNames, js) : js \in draws}
    IN  /\ \A out \in outputs : Len(out) = N /\ Range(out) = Range(playerNames)
        /\ Cardinality(draws) = Factorial(N)
        /\ Cardinality(outputs) = Factorial(N)
        /\ playerNames = SubSeq(Players8, 1, N)
        /\ shuffleResult # <<>> => shuffleResult \in outputs

\* A call on five elements returned them in another order, the last one first.
C21_Witness ==
    /\ Len(playerNames) = 5
    /\ Len(shuffleResult) = 5
    /\ shuffleResult[1] = "E"
    /\ shuffleResult[5] # "A"
    /\ Range(shuffleResult) = Range(playerNames)

-----------------------------------------------------------------------------
(* The numbering of a generated schedule *)

\* C22: a generated schedule, of either format, has every game unscored (a game
\* has an id and two teams and no score field), its rounds numbered 1 .. N in
\* order, and its game ids are 1, 2, 3, ... in round order and, within a round,
\* in game order: 1 .. 14 for 8 players and 1 .. 15 for 12 players.
C22_GamesUnscoredAndNumberedInOrder ==
    stage = "playing" =>
        LET games == AllGames(rounds)
        IN  /\ Len(rounds) = (IF format = "8-player" THEN 7 ELSE 5)
            /\ Len(games) = (IF format = "8-player" THEN 14 ELSE 15)
            /\ \A r \in DOMAIN rounds : rounds[r].roundNumber = r
            /\ \A k \in DOMAIN games :
                /\ games[k].id = k
                /\ DOMAIN games[k] = {"id", "team1", "team2"}

\* An 8-player schedule was generated: the second game of round 7 has id 14.
C22_Witness ==
    /\ Generated8
    /\ Len(rounds) = 7
    /\ rounds[7].games[2].id = 14
    /\ ~IsScored(rounds[7].games[2])

-----------------------------------------------------------------------------
(* The net payment of a player *)

PrizeIn(payouts, p, entryFee) == AmountOrZero(payouts, p) + entryFee

-----------------------------------------------------------------------------
(* Recording a score *)

\* C24: every step that records a score is setGameScore(gameId, s1, s2) for some
\* game id and scores: afterwards the game with that id holds exactly s1 and s2,
\* whether or not it held scores before, and every other game, the ids, the
\* teams, the round numbers and the placement of the games in the rounds are as
\* they were.
C24_SetGameScoreChangesOneGameOnly ==
    [][\E gameId \in GameIds(rounds) : \E s1 \in ScoreSet, s2 \in ScoreSet :
          /\ DOMAIN rounds' = DOMAIN rounds
          /\ \A r \in DOMAIN rounds :
                /\ rounds'[r].roundNumber = rounds[r].roundNumber
                /\ DOMAIN rounds'[r] = DOMAIN rounds[r]
                /\ DOMAIN rounds'[r].games = DOMAIN rounds[r].games
                /\ \A g \in DOMAIN rounds[r].games :
                      LET before == rounds[r].games[g]
                          after == rounds'[r].games[g]
                      IN  IF before.id = gameId
                          THEN /\ after.id = before.id
                               /\ after.team1 = before.team1
                               /\ after.team2 = before.team2
                               /\ DOMAIN after = {"id", "team1", "team2",
                                                  "team1Score", "team2Score"}
                               /\ after.team1Score = s1
                               /\ after.team2Score = s2
                          ELSE after = before]_vars

\* Games 1 and 3, of different rounds, hold different scores and game 2, between
\* them, holds none.
C24_Witness ==
    /\ Len(rounds) >= 2
    /\ IsScored(rounds[1].games[1])
    /\ rounds[1].games[1].team1Score = 22
    /\ rounds[1].games[1].team2Score = 0
    /\ ~IsScored(rounds[1].games[2])
    /\ IsScored(rounds[2].games[1])
    /\ rounds[2].games[1].id = 3
    /\ rounds[2].games[1].team1Score = 21
    /\ rounds[2].games[1].team2Score = 21

-----------------------------------------------------------------------------
(* Team statistics against player statistics *)

\* C25: on a 12-player schedule, every team of a scored game has a record in
\* calculateTeamStats, and for each of the two members of the team the wins,
\* losses, pointsLost and gameScores of the member's calculatePlayerStats entry
\* equal those of the team's record.
C25_MemberStatsEqualTeamStats ==
    LET teamStats == calculateTeamStats(rounds)
        stats == calculatePlayerStats(rounds)
    IN  \A T \in ScoredTeams(AllGames(rounds)) :
            \E k \in DOMAIN teamStats :
                /\ Range(teamStats[k].players) = T
                /\ \A p \in T :
                      /\ EntryOf(stats, p).wins = teamStats[k].wins
                      /\ EntryOf(stats, p).losses = teamStats[k].losses
                      /\ EntryOf(stats, p).pointsLost = teamStats[k].pointsLost
                      /\ EntryOf(stats, p).gameScores = teamStats[k].gameScores

-----------------------------------------------------------------------------
(* The 8-player template as a block design *)

\* The number of games of the template that hold both positions a and b.
TogetherInTemplate(a, b) ==
    Cardinality({<<r, g>> \in (DOMAIN schedule) \X {1, 2} :
                    {a, b} \subseteq Range(schedule[r][g])})

\* The number of games of a schedule in which both p and q play.
TogetherInGames(gs, p, q) ==
    Cardinality({k \in DOMAIN gs : {p, q} \subseteq PlayersOf(gs[k])})

\* C26: the 8-player template is a resolvable 2-(8,4,3) design.  It has 7 rounds
\* of 2 games; the two games of a round hold 4 positions each and split the
\* positions 0 .. 7 between them; and every two different positions are in the
\* same game in exactly 3 of the 14 games.  A schedule generated from it has
\* the same property for the players: every two players are in the same game,
\* as partners or opponents, in exactly 3 of the 14 games.
C26_TemplateIsResolvableDesign ==
    /\ Len(schedule) = 7
    /\ \A r \in DOMAIN schedule :
          /\ Len(schedule[r]) = 2
          /\ Cardinality(Range(schedule[r][1])) = 4
          /\ Cardinality(Range(schedule[r][2])) = 4
          /\ Range(schedule[r][1]) \cap Range(schedule[r][2]) = {}
          /\ Range(schedule[r][1]) \cup Range(schedule[r][2]) = 0 .. 7
    /\ \A a \in 0 .. 7 : \A b \in 0 .. 7 : a # b => TogetherInTemplate(a, b) = 3
    /\ Generated8 =>
          /\ Len(AllGames(rounds)) = 14
          /\ \A p \in Range(playerNames) : \A q \in Range(playerNames) :
                p # q => TogetherInGames(AllGames(rounds), p, q) = 3

-----------------------------------------------------------------------------
(* Starting a tournament with custom pairing *)

\* C27: in the 12-player format with custom pairing, the tournament is in stage
\* 'playing' with a schedule only if there are exactly 6 custom teams whose 12
\* slots are exactly the 12 entered names, none of them empty; and as long as
\* the stage is 'input' there are no rounds.
C27_StartsOnlyWithAllPlayersAssigned ==
    /\ stage = "input" => rounds = <<>>
    /\ (stage = "playing" /\ customTeams # NoTeams) =>
          LET teams == customTeams[1]
              slots == [k \in 1 .. (2 * Len(teams)) |-> teams[(k + 1) \div 2][2 - (k % 2)]]
          IN  /\ Len(teams) = 6
              /\ rounds # <<>>
              /\ \A k \in DOMAIN slots : slots[k] # ""
              /\ Range(slots) = Range(filledNames(playerNames))
              /\ Cardinality(Range(slots)) = 12

-----------------------------------------------------------------------------
(* Side bets are zero-sum *)

\* C28: for every list of side bets, settled or not and with players shared
\* between bets, the amounts of calculateSideBetTotals sum to zero, and for
\* every entry fee the amounts of calculatePayoutsWithSideBets sum to the same
\* as those of calculatePayouts (in the 12-player format also those of
\* calculate12PlayerPayoutsWithSideBets and calculate12PlayerPayouts).
C28_SideBetsSumToZero ==
    /\ Sum(Amounts(calculateSideBetTotals(sideBets))) = 0
    /\ \A entryFee \in EntryFees :
          /\ Sum(Amounts(calculatePayoutsWithSideBets(rounds, entryFee, sideBets)))
                = Sum(Amounts(calculatePayouts(rounds, entryFee)))
          /\ format = "12-player" =>
                Sum(Amounts(calculate12PlayerPayoutsWithSideBets(rounds, entryFee, sideBets)))
                    = Sum(Amounts(calculate12PlayerPayouts(rounds, entryFee)))

\* Two settled bets of different amounts sharing players: a player has gained in
\* one and lost in the other, and the totals are not all zero.
C28_Witness ==
    LET totals == calculateSideBetTotals(sideBets)
    IN  /\ Len(sideBets) = 2
        /\ sideBets[1].winner = 1
        /\ sideBets[2].winner = 2
        /\ sideBets[1].amount # sideBets[2].amount
        /\ \E p \in Range(sideBets[1].team1) \cap Range(sideBets[2].team1) :
              AmountOrZero(totals, p) = sideBets[1].amount - sideBets[2].amount
        /\ Sum(Amounts(totals)) = 0

-----------------------------------------------------------------------------
(* The arithmetic of the player statistics *)

\* C29: every entry of calculatePlayerStats has gamesPlayed at least 1 and equal
\* to the length of gameScores, totalPoints equal to the sum of gameScores and
\* pointsLost equal to 21 times gamesPlayed minus totalPoints; and the wins of
\* all entries together are as many as the losses of all entries together.
C29_EntriesAddUpAndWinsEqualLosses ==
    LET stats == calculatePlayerStats(rounds)
    IN  /\ \A k \in DOMAIN stats :
              /\ stats[k].gamesPlayed >= 1
              /\ stats[k].gamesPlayed = Len(stats[k].gameScores)
              /\ stats[k].totalPoints = Sum(stats[k].gameScores)
              /\ stats[k].pointsLost = 21 * stats[k].gamesPlayed - stats[k].totalPoints
        /\ Sum([k \in DOMAIN stats |-> stats[k].wins])
              = Sum([k \in DOMAIN stats |-> stats[k].losses])

\* Two games are scored, one of them a tie and one above 21 points: a player
\* of both has two game scores and a negative pointsLost is among the entries.
C29_Witness ==
    LET stats == calculatePlayerStats(rounds)
        gs == AllGames(rounds)
    IN  /\ Cardinality(ScoredIds(rounds)) = 2
        /\ \E k \in DOMAIN gs : IsScored(gs[k]) /\ gs[k].team1Score = gs[k].team2Score
        /\ \E k \in DOMAIN stats : stats[k].gamesPlayed = 2
        /\ \E k \in DOMAIN stats : stats[k].pointsLost < 0
        /\ Sum([k \in DOMAIN stats |-> stats[k].wins]) > 0

-----------------------------------------------------------------------------
(* Caller-supplied teams *)

\* The teams of a round, in the order team1, team2 of game 1, 2, 3.
TeamsOfRound(round) ==
    [k \in 1 .. (2 * Len(round.games)) |->
        IF k % 2 = 1 THEN round.games[(k + 1) \div 2].team1
        ELSE round.games[k \div 2].team2]

\* C30: generate12PlayerSchedule called with a customTeams array raises no error
\* whatever the array's length.  With six entries the teams of the schedule are
\* the entries as supplied, also when their names are not players or repeat:
\* round 1 game 1 is customTeams[0] against customTeams[1], every round is made
\* of the six entries, and the schedule is the one generated from the same
\* customTeams for any other player list and any other draws.  With another
\* length the array is ignored: the teams of every round pair up the 12 players.
C30_CustomTeamsUsedExactlyWhenSix ==
    /\ error = "none"
    /\ (stage = "playing" /\ customTeams # NoTeams) =>
          LET supplied == customTeams[1]
          IN  IF Len(supplied) = 6
              THEN /\ rounds[1].games[1].team1 = At(supplied, 0)
                   /\ rounds[1].games[1].team2 = At(supplied, 1)
                   /\ \A r \in DOMAIN rounds :
                         /\ Range(TeamsOfRound(rounds[r])) = Range(supplied)
                         /\ \A t \in Range(supplied) :
                               Cardinality({k \in 1 .. 6 : TeamsOfRound(rounds[r])[k] = t})
                                  = Cardinality({k \in 1 .. 6 : supplied[k] = t})
                   /\ rounds = generate12PlayerSchedule(Players12Separator, customTeams,
                                                        IdentityDraws(12))
              ELSE \A r \in DOMAIN rounds :
                      LET teams == TeamsOfRound(rounds[r])
                      IN  /\ Len(teams) = 6
                          /\ \A k \in DOMAIN teams : Cardinality(Range(teams[k])) = 2
                          /\ UNION {Range(teams[k]) : k \in DOMAIN teams} = Range(playerNames)

\* A schedule generated from six supplied teams whose names are not all players
\* and of which one is listed twice: game 1 is X & Y against B & A.
C30_Witness ==
    /\ stage = "playing"
    /\ customTeams # NoTeams
    /\ Len(customTeams[1]) = 6
    /\ customTeams[1][1] = <<"X", "Y">>
    /\ rounds[1].games[1].team1 = <<"X", "Y">>
    /\ rounds[1].games[1].team2 = <<"B", "A">>
    /\ Len(rounds) = 5

====
